---- MODULE Spec2Model ----
(***************************************************************************)
(* The SSH message builder of the Surface Aggregator serial hub            *)
(* (drivers/misc/surface_aggregator/ssh_msgb.h): a cursor over a caller-   *)
(* owned byte region and the routines that assemble SYN, frame, ACK, NAK   *)
(* and command messages in it.                                             *)
(*                                                                         *)
(* Memory is the sequence of the bytes at the addresses 0, 1, 2, ...: the   *)
(* byte at address a is mem[a + 1].  It covers the storage the buffer is   *)
(* bound to, [begin, end), and the memory that follows it, so that a write *)
(* past `end` is visible as what it is.                                    *)
(***************************************************************************)
EXTENDS Integers, Sequences, FiniteSets, TLC

\* ------------------------------------------------------------------ bounds
MaxCap == 20        \* capacities the buffer is bound with: 0..MaxCap
MaxPayload == 1     \* request payload lengths: 0..MaxPayload
MaxCalls == 2       \* push operations per behaviour

\* --------------------------------------------------------------- constants
U8 == 256                    \* u8 values are 0..U8-1
U16 == 65536                 \* u16 values are 0..U16-1
SizeofU16 == 2               \* sizeof(u16)
SizeofFrame == 4             \* sizeof(struct ssh_frame): type, len (le16), seq
SizeofCmd == 8               \* sizeof(struct ssh_command)
SSH_MSG_SYN == 43690         \* 0xAAAA
SSH_FRAME_TYPE_ACK == 1
SSH_FRAME_TYPE_NAK == 2
SSH_FRAME_TYPE_DATA_SEQ == 3
SSH_PLD_TYPE_CMD == 128      \* 0x80

\* Memory modelled: the largest storage and the bytes an unchecked copy can
\* reach beyond it within MaxCalls operations.
MemSize == MaxCap + MaxCalls * MaxPayload

\* ----------------------------------------------------------------- helpers
ToU16(n) == n % U16

\* Mutation of put_unaligned_le16: high byte first.
put_unaligned_le16_BE(value) == <<(value \div U8) % U8, value % U8>>

\* put_unaligned_le16(): low byte first.
put_unaligned_le16(value) == <<value % U8, (value \div U8) % U8>>

\* The byte at address `at`.
ByteAt(m, at) == m[at + 1]

\* get_unaligned_le16() of the two bytes at `at`, for reading fields back.
ReadLE16(m, at) == ByteAt(m, at) + U8 * ByteAt(m, at + 1)

\* The bytes at the addresses lo .. hi-1.
Bytes(m, lo, hi) == SubSeq(m, lo + 1, hi)

\* The checksum primitive: a deterministic 16-bit function of a byte range
\* (the sum of the bytes modulo 2^16).
\* SumBytes(m, lo, hi) is m[lo] + ... + m[hi - 1].
RECURSIVE SumBytes(_, _, _)
SumBytes(m, lo, hi) ==
  IF hi <= lo THEN 0
  ELSE IF hi = lo + 1 THEN m[lo]
  ELSE LET mid == (lo + hi) \div 2
       IN  SumBytes(m, lo, mid) + SumBytes(m, mid, hi)

\* The checksum of a byte sequence.
CrcOfSeq(bytes) == SumBytes(bytes, 1, Len(bytes) + 1) % U16

\* ssh_crc(buf, len): the checksum of the len bytes at address buf.
ssh_crc(m, buf, len) == CrcOfSeq(Bytes(m, buf, buf + len))

\* A store of `bytes` at address `at`: memory changes where it is modelled,
\* and the addresses touched are recorded in wr.
Store(s, at, bytes) ==
  LET size == Len(s.mem)
      n == Len(bytes)
      fit == IF at + n <= size THEN n ELSE IF at < size THEN size - at ELSE 0
  IN  [s EXCEPT
         !.mem = IF fit = 0 THEN @
                 ELSE SubSeq(@, 1, at) \o SubSeq(bytes, 1, fit)
                      \o SubSeq(@, at + fit + 1, size),
         !.wr = @ \cup (at .. (at + n - 1))]

\* WARN_ON(cond) with cond true: one diagnostic.
Warn(s) == [s EXCEPT !.warn = @ + 1]

\* ------------------------------------------------------- struct msgbuf ops
\* A buffer state s is [begin, end, ptr, mem] plus what a call leaves for
\* the observer: warn (diagnostics emitted), wr (addresses stored to) and
\* fault (an out-of-bounds copy trapped instead of landing).

\* Mutation of msgb_init: the cursor is set to the end of the storage.
msgb_init_PtrAtEnd(m, p, cap) ==
  [begin |-> p, end |-> p + cap, ptr |-> p + cap, mem |-> m,
   warn |-> 0, wr |-> {}, fault |-> FALSE]

msgb_init(m, p, cap) ==
  [begin |-> p, end |-> p + cap, ptr |-> p, mem |-> m,
   warn |-> 0, wr |-> {}, fault |-> FALSE]

msgb_bytes_used(s) == s.ptr - s.begin

\* Mutation of msgb_push_u16: the overflowing write is dropped silently.
msgb_push_u16_Silent(s, value) ==
  IF s.ptr + SizeofU16 > s.end
  THEN s
  ELSE [Store(s, s.ptr, put_unaligned_le16(value)) EXCEPT !.ptr = @ + SizeofU16]

\* Mutation of msgb_push_u16: a value that exactly fills the storage is
\* rejected (>= for >).
msgb_push_u16_OffByOne(s, value) ==
  IF s.ptr + SizeofU16 >= s.end
  THEN Warn(s)
  ELSE [Store(s, s.ptr, put_unaligned_le16(value)) EXCEPT !.ptr = @ + SizeofU16]

\* Mutation of msgb_push_u16: no capacity check.
msgb_push_u16_Unchecked(s, value) ==
  [Store(s, s.ptr, put_unaligned_le16(value)) EXCEPT !.ptr = @ + SizeofU16]

msgb_push_u16(s, value) ==
  IF s.ptr + SizeofU16 > s.end
  THEN Warn(s)
  ELSE [Store(s, s.ptr, put_unaligned_le16(value)) EXCEPT !.ptr = @ + SizeofU16]

msgb_push_syn(s) == msgb_push_u16(s, SSH_MSG_SYN)

\* memcpy() with no capacity check.  A copy that stays inside the storage
\* is defined.  One that runs past `end` is undefined behaviour: either the
\* bytes land in the memory behind the storage and the cursor moves past
\* `end` (oob = "land"), or the access traps once the storage is full and
\* the call never returns (oob = "fault").
msgb_push_buf(s, buf, len, oob) ==
  IF s.ptr + len <= s.end \/ oob = "land"
  THEN [Store(s, s.ptr, SubSeq(buf, 1, len)) EXCEPT !.ptr = @ + len]
  ELSE LET room == IF s.end > s.ptr THEN s.end - s.ptr ELSE 0
       IN  [Store(s, s.ptr, SubSeq(buf, 1, room)) EXCEPT !.fault = TRUE]

msgb_push_crc(s, buf, len) == msgb_push_u16(s, ssh_crc(s.mem, buf, len))

\* Mutation of msgb_push_frame: the checksum range starts at the origin of
\* the buffer (msgb->begin) instead of at the frame.
msgb_push_frame_CrcFromOrigin(s, ty, len, seq) ==
  IF s.ptr + SizeofFrame > s.end
  THEN Warn(s)
  ELSE LET s1 == [Store(s, s.ptr, <<ty>> \o put_unaligned_le16(len) \o <<seq>>)
                    EXCEPT !.ptr = @ + SizeofFrame]
       IN  msgb_push_crc(s1, s.begin, s1.ptr - s.begin)

\* Mutation of msgb_push_frame: the capacity check asks for sizeof(u16)
\* instead of sizeof(*frame).
msgb_push_frame_WeakCheck(s, ty, len, seq) ==
  LET frame_begin == s.ptr IN
  IF s.ptr + SizeofU16 > s.end
  THEN Warn(s)
  ELSE LET s1 == [Store(s, s.ptr, <<ty>> \o put_unaligned_le16(len) \o <<seq>>)
                    EXCEPT !.ptr = @ + SizeofFrame]
       IN  msgb_push_crc(s1, frame_begin, s1.ptr - frame_begin)

\* Mutation of msgb_push_frame: the frame is stored at msgb->begin instead
\* of msgb->ptr.
msgb_push_frame_AtBegin(s, ty, len, seq) ==
  LET frame_begin == s.ptr IN
  IF s.ptr + SizeofFrame > s.end
  THEN Warn(s)
  ELSE LET s1 == [Store(s, s.begin, <<ty>> \o put_unaligned_le16(len) \o <<seq>>)
                    EXCEPT !.ptr = @ + SizeofFrame]
       IN  msgb_push_crc(s1, frame_begin, s1.ptr - frame_begin)

\* Mutation of msgb_push_frame: header and checksum are written together
\* or not at all.
msgb_push_frame_AllOrNothing(s, ty, len, seq) ==
  LET frame_begin == s.ptr IN
  IF s.ptr + SizeofFrame + SizeofU16 > s.end
  THEN Warn(s)
  ELSE LET s1 == [Store(s, s.ptr, <<ty>> \o put_unaligned_le16(len) \o <<seq>>)
                    EXCEPT !.ptr = @ + SizeofFrame]
       IN  msgb_push_crc(s1, frame_begin, s1.ptr - frame_begin)

msgb_push_frame(s, ty, len, seq) ==
  LET frame_begin == s.ptr IN
  IF s.ptr + SizeofFrame > s.end
  THEN Warn(s)
  ELSE LET s1 == [Store(s, s.ptr, <<ty>> \o put_unaligned_le16(len) \o <<seq>>)
                    EXCEPT !.ptr = @ + SizeofFrame]
       IN  msgb_push_crc(s1, frame_begin, s1.ptr - frame_begin)

\* Mutation of msgb_push_ack: no payload checksum after the frame.
msgb_push_ack_NoPayloadCrc(s, seq) ==
  LET s1 == msgb_push_syn(s)
  IN  msgb_push_frame(s1, SSH_FRAME_TYPE_ACK, 0, seq)

msgb_push_ack(s, seq) ==
  LET s1 == msgb_push_syn(s)
      s2 == msgb_push_frame(s1, SSH_FRAME_TYPE_ACK, 0, seq)
  IN  msgb_push_crc(s2, s2.ptr, 0)

msgb_push_nak(s) ==
  LET s1 == msgb_push_syn(s)
      s2 == msgb_push_frame(s1, SSH_FRAME_TYPE_NAK, 0, 0)
  IN  msgb_push_crc(s2, s2.ptr, 0)

\* Mutation of msgb_push_cmd: the payload checksum covers the command
\* struct only.
msgb_push_cmd_CrcOverCmdOnly(s, seq, rqid, rqst, oob) ==
  LET s1 == msgb_push_syn(s)
      s2 == msgb_push_frame(s1, SSH_FRAME_TYPE_DATA_SEQ,
                            ToU16(SizeofCmd + rqst.length), seq)
  IN  IF s2.ptr + SizeofCmd > s2.end
      THEN Warn(s2)
      ELSE LET cmd_begin == s2.ptr
               s3 == [Store(s2, s2.ptr,
                            <<SSH_PLD_TYPE_CMD, rqst.target_category,
                              rqst.target_id, 0, rqst.instance_id>>
                            \o put_unaligned_le16(rqid)
                            \o <<rqst.command_id>>)
                        EXCEPT !.ptr = @ + SizeofCmd]
               s4 == msgb_push_buf(s3, rqst.payload, rqst.length, oob)
           IN  IF s4.fault THEN s4
               ELSE msgb_push_crc(s4, cmd_begin, SizeofCmd)

\* Mutation of msgb_push_cmd: tid_out and tid_in exchanged.
msgb_push_cmd_TidSwapped(s, seq, rqid, rqst, oob) ==
  LET s1 == msgb_push_syn(s)
      s2 == msgb_push_frame(s1, SSH_FRAME_TYPE_DATA_SEQ,
                            ToU16(SizeofCmd + rqst.length), seq)
  IN  IF s2.ptr + SizeofCmd > s2.end
      THEN Warn(s2)
      ELSE LET cmd_begin == s2.ptr
               s3 == [Store(s2, s2.ptr,
                            <<SSH_PLD_TYPE_CMD, rqst.target_category,
                              0, rqst.target_id, rqst.instance_id>>
                            \o put_unaligned_le16(rqid)
                            \o <<rqst.command_id>>)
                        EXCEPT !.ptr = @ + SizeofCmd]
               s4 == msgb_push_buf(s3, rqst.payload, rqst.length, oob)
           IN  IF s4.fault THEN s4
               ELSE msgb_push_crc(s4, cmd_begin, s4.ptr - cmd_begin)

\* rqst is a struct ssam_request: target_category, target_id, command_id,
\* instance_id (u8), length (u16) and payload (length bytes).
msgb_push_cmd(s, seq, rqid, rqst, oob) ==
  LET s1 == msgb_push_syn(s)
      \* the u16 parameter len of msgb_push_frame receives the size_t sum
      s2 == msgb_push_frame(s1, SSH_FRAME_TYPE_DATA_SEQ,
                            ToU16(SizeofCmd + rqst.length), seq)
  IN  IF s2.ptr + SizeofCmd > s2.end
      THEN Warn(s2)
      ELSE LET cmd_begin == s2.ptr
               s3 == [Store(s2, s2.ptr,
                            <<SSH_PLD_TYPE_CMD, rqst.target_category,
                              rqst.target_id, 0, rqst.instance_id>>
                            \o put_unaligned_le16(rqid)
                            \o <<rqst.command_id>>)
                        EXCEPT !.ptr = @ + SizeofCmd]
               s4 == msgb_push_buf(s3, rqst.payload, rqst.length, oob)
           IN  IF s4.fault THEN s4
               ELSE msgb_push_crc(s4, cmd_begin, s4.ptr - cmd_begin)

\* ------------------------------------------------------------ the machine
VARIABLES
  begin, end, ptr,  \* struct msgbuf, as addresses
  mem,              \* the bytes at the addresses 0 .. MemLen-1
  fault,            \* an out-of-bounds copy trapped: the caller is gone
  op, args,         \* the last operation called and its arguments
  ptr0,             \* the cursor the last operation started from
  warned,           \* diagnostics (WARN_ON) the last operation emitted
  written,          \* addresses the last operation stored to
  calls             \* push operations made so far

msgb == <<begin, end, ptr, mem, fault, op, args, ptr0, warned, written,
          calls>>

\* The hot-plug bridge (clients/surface_hotplug.c) next to it.
VARIABLES
  dsm_present,      \* per DSM function: acpi_check_dsm() finds it
  level,            \* per type: the GPIO line's level now
  ppc, pi,          \* where probe/remove stands, and its loop index i
  stored,           \* of the stores of lines 189-190, those made for type pi
  sgpio, sirq,      \* sdev->gpio[], sdev->irq[]
  lock,             \* sdev->lock[]: the thread holding it, or NoThread
  registered,       \* per type: shps_handle_irq is requested for its IRQ
  disabled,         \* per type: disable_irq() has masked its IRQ
  latched,          \* per type: an edge is pending delivery
  thr,              \* per thread: position in shps_handle_irq and
                    \* shps_dsm_notify_irq, with its locals
  reads,            \* per type: GPIO reads made so far
  dsm,              \* per DSM function: how its last notification ended
  changes,          \* level changes so far
  disableArgs       \* the arguments disable_irq() was called with

shps == <<dsm_present, level, ppc, pi, stored, sgpio, sirq, lock, registered,
          disabled, latched, thr, reads, dsm, changes,
                 disableArgs>>

vars == <<msgb, shps>>

\* enum shps_irq_type, and the DSM function of each type.
SHPS_NUM_IRQS == 3
Types == 0..(SHPS_NUM_IRQS - 1)
SHPS_DSM_FN_IRQ_BASE_PRESENCE == 3
DsmFn(type) == SHPS_DSM_FN_IRQ_BASE_PRESENCE + type
DsmFns == {DsmFn(type) : type \in Types}

\* (unsigned int)-1: all 32 bits set, written as the int of these bits.
SHPS_IRQ_NOT_PRESENT == -1

\* gpiod_to_irq(): each line has an interrupt number of its own, above 0.
IrqBase == 40
IrqOf(type) == IrqBase + type

\* The interrupt thread of each type's IRQ, and the thread that runs
\* surface_hotplug_probe() and surface_hotplug_remove().
ProbeThread == SHPS_NUM_IRQS
Threads == Types \cup {ProbeThread}
NoThread == SHPS_NUM_IRQS + 1

\* A gpio_desc pointer: NULL, or the descriptor of the type's line.
NoGpio == 0
GpioSet == 1

\* What the platform was last told of a type: the value passed to its DSM
\* function, nothing yet, or nothing it can rely on because the GPIO read
\* or the evaluation failed.
NoValue == 2
Failed == 3

Idle == [pc |-> "idle", type |-> 0, value |-> 0, stamp |-> 0]

\* The bridge before surface_hotplug_probe(): nothing requested, and the
\* device structure as devm_kzalloc() will hand it out.
Unprobed ==
  /\ level = [t \in Types |-> 0]
  /\ ppc = "start"
  /\ pi = 0
  /\ stored = {}
  /\ sgpio = [t \in Types |-> NoGpio]
  /\ sirq = [t \in Types |-> 0]
  /\ lock = [t \in Types |-> NoThread]
  /\ registered = [t \in Types |-> FALSE]
  /\ disabled = [t \in Types |-> FALSE]
  /\ latched = [t \in Types |-> FALSE]
  /\ thr = [th \in Threads |-> Idle]
  /\ reads = [t \in Types |-> 0]
  /\ dsm = [fn \in DsmFns |-> [value |-> NoValue, stamp |-> 0]]
  /\ changes = 0
  /\ disableArgs = {}

\* The extent of the memory modelled: addresses 0 .. MemLen-1.
MemLen == Len(mem)

\* Inputs.
Seqs == {0, 5}
Rqids == {4660}
Ids == {[target_category |-> 2, target_id |-> 1, instance_id |-> 3,
         command_id |-> 9]}
FrameLens == {258}
Values == {4660}
FillBytes == {204}
OobOutcomes == {"land", "fault"}

\* The caller's payload bytes: 0xDE, 0xAD, 0xDE, ...
PayloadByte(i) == IF i % 2 = 1 THEN 222 ELSE 173
Payload(n) == [i \in 1..n |-> PayloadByte(i)]

Rqst(id, n) ==
  [target_category |-> id.target_category, target_id |-> id.target_id,
   command_id |-> id.command_id, instance_id |-> id.instance_id,
   length |-> n, payload |-> Payload(n)]

NoRqst == Rqst(CHOOSE id \in Ids : TRUE, 0)

NoArgs == [seq |-> 0, rqid |-> 0, rqst |-> NoRqst, ty |-> 0, len |-> 0,
           value |-> 0, buf |-> 0]

\* The buffer as the operations see it at the start of a call.
Cur == [begin |-> begin, end |-> end, ptr |-> ptr, mem |-> mem,
        warn |-> 0, wr |-> {}, fault |-> FALSE]

\* A call of operation `name` with arguments `a` that leaves the buffer s.
Return(name, a, s) ==
  /\ begin' = s.begin
  /\ end' = s.end
  /\ ptr' = s.ptr
  /\ mem' = s.mem
  /\ fault' = s.fault
  /\ op' = name
  /\ args' = a
  /\ ptr0' = ptr
  /\ warned' = s.warn
  /\ written' = s.wr
  /\ calls' = calls + 1
  /\ UNCHANGED shps

CanCall == ~fault /\ calls < MaxCalls

\* msgb_init() over storage of cap bytes at address 0, whose content is
\* whatever the caller left there.
InitWith(caps, size) ==
  /\ \E cap \in caps, fill \in FillBytes :
       LET s == msgb_init([a \in 1..size |-> fill], 0, cap)
       IN  /\ begin = s.begin
           /\ end = s.end
           /\ ptr = s.ptr
           /\ mem = s.mem
  /\ fault = FALSE
  /\ op = "init"
  /\ args = NoArgs
  /\ ptr0 = 0
  /\ warned = 0
  /\ written = {}
  /\ calls = 0

\* The bridge is not probed while the message builder is exercised.
NoBridge == dsm_present = [fn \in DsmFns |-> TRUE] /\ Unprobed

Init == InitWith(0..MaxCap, MemSize) /\ NoBridge

\* msgb_init() again, on the same storage and capacity.
Bind ==
  /\ ~fault
  /\ LET s == msgb_init(mem, begin, end - begin)
     IN  /\ begin' = s.begin
         /\ end' = s.end
         /\ ptr' = s.ptr
         /\ mem' = s.mem
  /\ op' = "init"
  /\ args' = NoArgs
  /\ ptr0' = begin
  /\ warned' = 0
  /\ written' = {}
  /\ UNCHANGED <<fault, calls>>
  /\ UNCHANGED shps

PushU16 ==
  /\ CanCall
  /\ \E v \in Values :
       Return("push_u16", [NoArgs EXCEPT !.value = v], msgb_push_u16(Cur, v))

PushSyn ==
  /\ CanCall
  /\ Return("push_syn", NoArgs, msgb_push_syn(Cur))

\* The caller's buffer is a payload of n bytes; the copy must stay inside
\* the memory that is modelled.
PushBuf ==
  /\ CanCall
  /\ \E n \in 0..MaxPayload, oob \in OobOutcomes :
       /\ ptr + n <= MemLen
       /\ Return("push_buf", [NoArgs EXCEPT !.len = n],
                 msgb_push_buf(Cur, Payload(n), n, oob))

\* The range the checksum is taken over lies in the bytes written so far.
PushCrc ==
  /\ CanCall
  /\ \E b \in {begin, ptr} :
       /\ b <= ptr
       /\ Return("push_crc", [NoArgs EXCEPT !.buf = b, !.len = ptr - b],
                 msgb_push_crc(Cur, b, ptr - b))

PushFrame ==
  /\ CanCall
  /\ \E ty \in {SSH_FRAME_TYPE_ACK, SSH_FRAME_TYPE_NAK, SSH_FRAME_TYPE_DATA_SEQ},
        len \in FrameLens, seq \in Seqs :
       Return("push_frame", [NoArgs EXCEPT !.ty = ty, !.len = len, !.seq = seq],
              msgb_push_frame(Cur, ty, len, seq))

PushAck ==
  /\ CanCall
  /\ \E seq \in Seqs :
       Return("push_ack", [NoArgs EXCEPT !.seq = seq], msgb_push_ack(Cur, seq))

PushNak ==
  /\ CanCall
  /\ Return("push_nak", NoArgs, msgb_push_nak(Cur))

PushCmd ==
  /\ CanCall
  /\ \E seq \in Seqs, rqid \in Rqids, id \in Ids, n \in 0..MaxPayload,
        oob \in OobOutcomes :
       LET rqst == Rqst(id, n)
       IN  Return("push_cmd",
                  [NoArgs EXCEPT !.seq = seq, !.rqid = rqid, !.rqst = rqst],
                  msgb_push_cmd(Cur, seq, rqid, rqst, oob))

Next ==
  \/ Bind
  \/ PushU16
  \/ PushSyn
  \/ PushBuf
  \/ PushCrc
  \/ PushFrame
  \/ PushAck
  \/ PushNak
  \/ PushCmd

Spec == Init /\ [][Next]_vars

\* ----------------------------------------------- the 16-bit length range
\* Request lengths at the top of the u16 range, and storage that holds the
\* whole message for each of them.
WideLens == {U16 - SizeofCmd - 1, U16 - SizeofCmd, U16 - 1}
WideSize == 3 * SizeofU16 + SizeofFrame + SizeofCmd + (U16 - 1)
WideCaps == {WideSize - 1, WideSize}

InitWide == InitWith(WideCaps, WideSize) /\ NoBridge

PushCmdWide ==
  /\ CanCall
  /\ \E seq \in Seqs, rqid \in Rqids, id \in Ids, n \in WideLens,
        oob \in OobOutcomes :
       LET rqst == Rqst(id, n)
       IN  Return("push_cmd",
                  [NoArgs EXCEPT !.seq = seq, !.rqid = rqid, !.rqst = rqst],
                  msgb_push_cmd(Cur, seq, rqid, rqst, oob))

NextWide ==
  \/ PushSyn
  \/ PushAck
  \/ PushNak
  \/ PushCmdWide

SpecWide == InitWide /\ [][NextWide]_vars

\* ------------------------------------------------- the hot-plug bridge
MaxChanges == 1     \* GPIO level changes per behaviour

\* mutex_lock(&sdev->lock[type]) can be taken.
LockFree_Always(type) == TRUE

LockFree(type) == lock[type] = NoThread

\* gpiod_get_value_cansleep(sdev->gpio[type]): the level of the line, and 0
\* for the NULL descriptor.
gpiod_get_value(type) == IF sgpio[type] = NoGpio THEN 0 ELSE level[type]

\* The loop of shps_handle_irq(): the first type recorded with this IRQ
\* number, SHPS_NUM_IRQS if there is none.
TypeOfIrq(irq) ==
  IF \E type \in Types : sirq[type] = irq
  THEN CHOOSE type \in Types :
         /\ sirq[type] = irq
         /\ \A k \in Types : sirq[k] = irq => type <= k
  ELSE SHPS_NUM_IRQS

\* The test of both loops over the set-up interrupts.
IsPresent_Never(i) == FALSE

IsPresent(i) == sirq[i] # SHPS_IRQ_NOT_PRESENT

\* disable_irq() returns once no handler of the IRQ is running.
Synchronized_NoWait(type) == TRUE

Synchronized(type) == thr[type].pc = "idle"

\* disable_irq(irq): masks the line that has this number, if any.
Masked(irq) == [t \in Types |-> disabled[t] \/ IrqOf(t) = irq]

HpMsgb == UNCHANGED msgb

\* The loop increment of the set-up loop, and the one of the second loop
\* followed by `return 0`.
NextSetup ==
  IF pi + 1 < SHPS_NUM_IRQS
  THEN ppc' = "setup" /\ pi' = pi + 1
  ELSE ppc' = "notify" /\ pi' = 0

NextNotify ==
  IF pi + 1 < SHPS_NUM_IRQS
  THEN ppc' = "notify" /\ pi' = pi + 1
  ELSE ppc' = "probed" /\ pi' = 0

NextRemove ==
  IF pi + 1 < SHPS_NUM_IRQS
  THEN ppc' = "remove" /\ pi' = pi + 1
  ELSE ppc' = "removed" /\ pi' = 0

\* surface_hotplug_probe() up to platform_set_drvdata(): the three early
\* failures, or a zeroed device structure.
ProbeStart ==
  /\ ppc = "start"
  /\ \E ok \in BOOLEAN :
       IF ok THEN ppc' = "setup" ELSE ppc' = "failed"
  /\ UNCHANGED <<dsm_present, level, pi, stored, sgpio, sirq, lock,
                 registered, disabled, latched, thr, reads, dsm, changes,
                 disableArgs>>
  /\ HpMsgb

\* mutex_init() and shps_setup_irq() up to acpi_check_dsm().
SetupCheck ==
  /\ ppc = "setup"
  /\ lock' = [lock EXCEPT ![pi] = NoThread]
  /\ sgpio' = [sgpio EXCEPT ![pi] = NoGpio]
  /\ sirq' = [sirq EXCEPT ![pi] = SHPS_IRQ_NOT_PRESENT]
  /\ IF dsm_present[DsmFn(pi)]
     THEN ppc' = "acquire" /\ pi' = pi
     ELSE NextSetup
  /\ UNCHANGED <<dsm_present, level, stored, registered, disabled, latched,
                 thr, reads, dsm, changes,
                 disableArgs>>
  /\ HpMsgb

\* devm_gpiod_get(), gpiod_to_irq(), devm_kasprintf(): each can fail, and
\* the probe then returns the error.
SetupAcquire ==
  /\ ppc = "acquire"
  /\ \E ok \in BOOLEAN :
       IF ok THEN ppc' = "request" ELSE ppc' = "unwind"
  /\ UNCHANGED <<dsm_present, level, pi, stored, sgpio, sirq, lock,
                 registered, disabled, latched, thr, reads, dsm, changes,
                 disableArgs>>
  /\ HpMsgb

\* devm_request_threaded_irq(): from here on the line's edges run
\* shps_handle_irq().
SetupRequest ==
  /\ ppc = "request"
  /\ \E ok \in BOOLEAN :
       IF ok
       THEN /\ registered' = [registered EXCEPT ![pi] = TRUE]
            /\ ppc' = "store"
       ELSE /\ registered' = registered
            /\ ppc' = "unwind"
  /\ stored' = {}
  /\ UNCHANGED <<dsm_present, level, pi, sgpio, sirq, lock, disabled,
                 latched, thr, reads, dsm, changes,
                 disableArgs>>
  /\ HpMsgb

\* sdev->gpio[type] = gpiod and sdev->irq[type] = irq: two plain stores
\* that the interrupt thread reads without synchronisation, so it can see
\* them in either order.  The second one made returns 0 to the probe.
SetupStore ==
  /\ ppc = "store"
  /\ \E f \in {"gpio", "irq"} \ stored :
       /\ IF f = "gpio"
          THEN sgpio' = [sgpio EXCEPT ![pi] = GpioSet] /\ sirq' = sirq
          ELSE sirq' = [sirq EXCEPT ![pi] = IrqOf(pi)] /\ sgpio' = sgpio
       /\ IF stored = {}
          THEN stored' = {f} /\ ppc' = ppc /\ pi' = pi
          ELSE stored' = {} /\ NextSetup
  /\ UNCHANGED <<dsm_present, level, lock, registered, disabled, latched,
                 thr, reads, dsm, changes,
                 disableArgs>>
  /\ HpMsgb

\* A failed probe: the driver core releases the device's resources, and
\* free_irq() waits for the handler it removes.
ProbeUnwind ==
  /\ ppc = "unwind"
  /\ IF \E t \in Types : registered[t]
     THEN /\ \E t \in Types :
               /\ registered[t]
               /\ Synchronized(t)
               /\ registered' = [registered EXCEPT ![t] = FALSE]
               /\ latched' = [latched EXCEPT ![t] = FALSE]
          /\ ppc' = ppc
     ELSE /\ ppc' = "failed"
          /\ UNCHANGED <<registered, latched>>
  /\ UNCHANGED <<dsm_present, level, pi, stored, sgpio, sirq, lock, disabled,
                 thr, reads, dsm, changes,
                 disableArgs>>
  /\ HpMsgb

\* The second loop of the probe: call shps_dsm_notify_irq() for a type
\* that is set up, pass over one that is not.
ProbeNotify ==
  /\ ppc = "notify"
  /\ IF IsPresent(pi)
     THEN /\ thr' = [thr EXCEPT ![ProbeThread] =
                       [Idle EXCEPT !.pc = "lock", !.type = pi]]
          /\ ppc' = "notifying"
          /\ pi' = pi
     ELSE /\ thr' = thr
          /\ NextNotify
  /\ UNCHANGED <<dsm_present, level, stored, sgpio, sirq, lock, registered,
                 disabled, latched, reads, dsm, changes,
                 disableArgs>>
  /\ HpMsgb

\* The line of a type changes its level; both edges interrupt once the
\* handler is requested.
Change ==
  /\ changes < MaxChanges
  /\ \E t \in Types :
       /\ level' = [level EXCEPT ![t] = 1 - @]
       /\ latched' = [latched EXCEPT ![t] = @ \/ registered[t]]
  /\ changes' = changes + 1
  /\ UNCHANGED <<dsm_present, ppc, pi, stored, sgpio, sirq, lock, registered,
                 disabled, thr, reads, dsm, disableArgs>>
  /\ HpMsgb

\* The interrupt thread of a line is woken: IRQF_ONESHOT keeps the line
\* masked until the thread is done.
Deliver ==
  /\ \E t \in Types :
       /\ registered[t] /\ ~disabled[t] /\ latched[t]
       /\ thr[t].pc = "idle"
       /\ latched' = [latched EXCEPT ![t] = FALSE]
       /\ thr' = [thr EXCEPT ![t] = [Idle EXCEPT !.pc = "lookup"]]
  /\ UNCHANGED <<dsm_present, level, ppc, pi, stored, sgpio, sirq, lock,
                 registered, disabled, reads, dsm, changes,
                 disableArgs>>
  /\ HpMsgb

\* shps_handle_irq() up to the call of shps_dsm_notify_irq(), or to the
\* WARN() of "invalid IRQ number".
shps_handle_irq ==
  /\ \E t \in Types :
       /\ thr[t].pc = "lookup"
       /\ LET type == TypeOfIrq(IrqOf(t))
          IN  IF type >= SHPS_NUM_IRQS
              THEN thr' = [thr EXCEPT ![t] = [Idle EXCEPT !.pc = "invalid"]]
              ELSE thr' = [thr EXCEPT ![t] =
                             [Idle EXCEPT !.pc = "lock", !.type = type]]
  /\ UNCHANGED <<dsm_present, level, ppc, pi, stored, sgpio, sirq, lock,
                 registered, disabled, latched, reads, dsm, changes,
                 disableArgs>>
  /\ HpMsgb

\* ... from which it returns IRQ_HANDLED with nothing notified.
IrqDiscard ==
  /\ \E t \in Types :
       /\ thr[t].pc = "invalid"
       /\ thr' = [thr EXCEPT ![t] = Idle]
  /\ UNCHANGED <<dsm_present, level, ppc, pi, stored, sgpio, sirq, lock,
                 registered, disabled, latched, reads, dsm, changes,
                 disableArgs>>
  /\ HpMsgb

\* shps_dsm_notify_irq() returns to its caller: the interrupt thread is
\* done, the probe goes on with its loop.
NotifyReturn(th) ==
  /\ thr' = [thr EXCEPT ![th] = Idle]
  /\ IF th = ProbeThread THEN NextNotify ELSE UNCHANGED <<ppc, pi>>

\* mutex_lock(&sdev->lock[type]).
NotifyLock ==
  /\ \E th \in Threads :
       /\ thr[th].pc = "lock"
       /\ LockFree(thr[th].type)
       /\ lock' = [lock EXCEPT ![thr[th].type] = th]
       /\ thr' = [thr EXCEPT ![th].pc = "read"]
  /\ UNCHANGED <<dsm_present, level, ppc, pi, stored, sgpio, sirq,
                 registered, disabled, latched, reads, dsm, changes,
                 disableArgs>>
  /\ HpMsgb

\* gpiod_get_value_cansleep(): a value, or an error, on which the lock is
\* released and the function returns.
NotifyRead ==
  /\ \E th \in Threads, ok \in BOOLEAN :
       /\ thr[th].pc = "read"
       /\ LET type == thr[th].type
          IN  IF ok
              THEN /\ reads' = [reads EXCEPT ![type] = @ + 1]
                   /\ thr' = [thr EXCEPT ![th] =
                                [pc |-> "dsm", type |-> type,
                                 value |-> gpiod_get_value(type),
                                 stamp |-> reads[type] + 1]]
                   /\ UNCHANGED <<lock, dsm, ppc, pi>>
              ELSE /\ lock' = [lock EXCEPT ![type] = NoThread]
                   /\ dsm' = [dsm EXCEPT ![DsmFn(type)].value = Failed]
                   /\ reads' = reads
                   /\ NotifyReturn(th)
  /\ UNCHANGED <<dsm_present, level, stored, sgpio, sirq, registered,
                 disabled, latched, changes, disableArgs>>
  /\ HpMsgb

\* acpi_evaluate_dsm() with the value read, a result or none, and
\* mutex_unlock() on either path.
NotifyDsm ==
  /\ \E th \in Threads, ok \in BOOLEAN :
       /\ thr[th].pc = "dsm"
       /\ LET type == thr[th].type
          IN  /\ dsm' = [dsm EXCEPT ![DsmFn(type)] =
                           [value |-> IF ok THEN thr[th].value ELSE Failed,
                            stamp |-> thr[th].stamp]]
              /\ lock' = [lock EXCEPT ![type] = NoThread]
       /\ NotifyReturn(th)
  /\ UNCHANGED <<dsm_present, level, stored, sgpio, sirq, registered,
                 disabled, latched, reads, changes, disableArgs>>
  /\ HpMsgb

\* surface_hotplug_remove() is called on a device that probed.
RemoveCall ==
  /\ ppc = "probed"
  /\ ppc' = "remove"
  /\ pi' = 0
  /\ UNCHANGED <<dsm_present, level, stored, sgpio, sirq, lock, registered,
                 disabled, latched, thr, reads, dsm, changes,
                 disableArgs>>
  /\ HpMsgb

\* The loop of surface_hotplug_remove(): disable_irq() masks the line ...
RemoveDisable ==
  /\ ppc = "remove"
  /\ IF IsPresent(pi)
     THEN /\ disabled' = Masked(sirq[pi])
          /\ disableArgs' = disableArgs \cup {sirq[pi]}
          /\ ppc' = "sync"
          /\ pi' = pi
     ELSE /\ UNCHANGED <<disabled, disableArgs>>
          /\ NextRemove
  /\ UNCHANGED <<dsm_present, level, stored, sgpio, sirq, lock, registered,
                 latched, thr, reads, dsm, changes>>
  /\ HpMsgb

\* ... and waits for its handler.
RemoveSync ==
  /\ ppc = "sync"
  /\ \A t \in Types : IrqOf(t) = sirq[pi] => Synchronized(t)
  /\ NextRemove
  /\ UNCHANGED <<dsm_present, level, stored, sgpio, sirq, lock, registered,
                 disabled, latched, thr, reads, dsm, changes,
                 disableArgs>>
  /\ HpMsgb

\* The platform: which DSM functions the firmware provides.
InitHp ==
  /\ InitWith({0}, 0)
  /\ dsm_present \in [DsmFns -> BOOLEAN]
  /\ Unprobed

NextHp ==
  \/ ProbeStart
  \/ SetupCheck
  \/ SetupAcquire
  \/ SetupRequest
  \/ SetupStore
  \/ ProbeUnwind
  \/ ProbeNotify
  \/ Change
  \/ Deliver
  \/ shps_handle_irq
  \/ IrqDiscard
  \/ NotifyLock
  \/ NotifyRead
  \/ NotifyDsm
  \/ RemoveCall
  \/ RemoveDisable
  \/ RemoveSync

\* The interrupt threads and the probing thread are scheduled: a step of
\* shps_handle_irq() or shps_dsm_notify_irq() that can be taken is taken.
Handling ==
  \/ Deliver
  \/ shps_handle_irq
  \/ IrqDiscard
  \/ NotifyLock
  \/ NotifyRead
  \/ NotifyDsm

SpecHp == InitHp /\ [][NextHp]_vars /\ WF_vars(Handling)

\* ------------------------------------------------------------ observations
Cap == end - begin
Used == msgb_bytes_used(Cur)

\* The last operation started from the origin of the buffer.
Fresh == ptr0 = begin

Encoders == {"push_ack", "push_nak", "push_cmd"}
Pushers == {"push_syn", "push_frame", "push_ack", "push_nak", "push_cmd"}

\* The frame payload of the message the last operation builds, and the size
\* of everything the operation appends when nothing is dropped.
PayloadLength == IF op = "push_cmd" THEN SizeofCmd + args.rqst.length ELSE 0
MsgSize == SizeofU16 + SizeofFrame + SizeofU16 + PayloadLength + SizeofU16
Need ==
  CASE op = "push_syn" -> SizeofU16
    [] op = "push_frame" -> SizeofFrame + SizeofU16
    [] OTHER -> MsgSize

FrameType ==
  CASE op = "push_ack" -> SSH_FRAME_TYPE_ACK
    [] op = "push_nak" -> SSH_FRAME_TYPE_NAK
    [] OTHER -> SSH_FRAME_TYPE_DATA_SEQ

\* The bytes [origin, cursor).
Msg == Bytes(mem, begin, ptr)

\* The last encoder call repeated on a buffer with room for all of it.
Ample ==
  LET s == msgb_init([a \in 1..MsgSize |-> 0], 0, MsgSize)
  IN  CASE op = "push_ack" -> msgb_push_ack(s, args.seq)
        [] op = "push_nak" -> msgb_push_nak(s)
        [] OTHER -> msgb_push_cmd(s, args.seq, args.rqid, args.rqst, "land")

IsPrefix(a, b) == Len(a) <= Len(b) /\ a = SubSeq(b, 1, Len(a))

\* ------------------------------------------------------------------ claims

\* C1: after msgb_init and any sequence of push operations, with any
\* capacity and any payload length, begin <= ptr <= end: no operation moves
\* the cursor past the limit, and msgb_bytes_used() never exceeds the
\* capacity.
C1_CursorWithinBounds ==
  /\ begin <= ptr
  /\ ptr <= end
  /\ Used <= Cap

\* C2: on a freshly bound buffer whose capacity is smaller than the complete
\* message, push_syn, push_frame, push_ack, push_nak and push_cmd store no
\* byte outside [begin, end).
C2_NoWriteOutsideStorage ==
  (op \in Pushers /\ Fresh /\ Cap < Need)
    => \A a \in written : begin <= a /\ a < end

\* C3: on a freshly bound buffer with capacity for the whole message, one
\* call of push_ack, push_nak or push_cmd leaves
\* used() = 2 + 4 + 2 + payload_length + 2: 10 for push_ack and push_nak,
\* 18 + request.length for push_cmd.
C3_LengthInvariant ==
  (op \in Encoders /\ Fresh /\ Cap >= MsgSize)
    => /\ Used = 2 + 4 + 2 + PayloadLength + 2
       /\ op \in {"push_ack", "push_nak"} => Used = 10
       /\ op = "push_cmd" => Used = 18 + args.rqst.length

C3_Witness ==
  /\ op = "push_cmd" /\ Fresh /\ Cap > MsgSize
  /\ args.rqst.length = MaxPayload
  /\ Used = 18 + MaxPayload

\* C4: in a message built by push_ack, push_nak or push_cmd on a freshly
\* bound buffer of sufficient capacity, the bytes at offsets 2..5 are type,
\* length low, length high, seq, and the bytes at offsets 6..7 are the
\* little-endian checksum of exactly those four bytes (the SYN bytes are
\* not covered).
C4_HeaderChecksum ==
  (op \in Encoders /\ Fresh /\ Cap >= MsgSize)
    => /\ Bytes(mem, begin + 2, begin + 6)
            = <<FrameType, PayloadLength % U8, PayloadLength \div U8, args.seq>>
       /\ ReadLE16(mem, begin + 6)
            = CrcOfSeq(Bytes(mem, begin + 2, begin + 6))

C4_Witness ==
  /\ op = "push_cmd" /\ Fresh /\ Cap >= MsgSize
  /\ args.seq = 5
  /\ ReadLE16(mem, begin + 6)
       = (SSH_FRAME_TYPE_DATA_SEQ + SizeofCmd + args.rqst.length + 5) % U16

\* C5: in a message built by push_ack, push_nak or push_cmd on a freshly
\* bound buffer of sufficient capacity, the last two bytes are the
\* little-endian checksum of exactly the payload bytes, offsets
\* 8 .. used()-3: the command header and the application payload as one
\* range for push_cmd, the empty range for push_ack and push_nak.
C5_PayloadChecksum ==
  (op \in Encoders /\ Fresh /\ Cap >= MsgSize)
    => /\ ReadLE16(mem, ptr - 2)
            = CrcOfSeq(Bytes(mem, begin + 8, ptr - 2))
       /\ op \in {"push_ack", "push_nak"}
            => /\ ptr - 2 = begin + 8
               /\ ReadLE16(mem, ptr - 2) = CrcOfSeq(<<>>)
       /\ op = "push_cmd"
            => Bytes(mem, begin + 8, ptr - 2)
                 = Bytes(mem, begin + 8, begin + 8 + SizeofCmd)
                   \o args.rqst.payload

C5_Witness ==
  /\ op = "push_cmd" /\ Fresh /\ Cap >= MsgSize
  /\ args.rqst.length = MaxPayload
  /\ Used = MsgSize
  /\ ReadLE16(mem, ptr - 2) > CrcOfSeq(Bytes(mem, begin + 8, begin + 16))

\* C6: for every capacity, the bytes [origin, cursor) that push_ack,
\* push_nak or push_cmd leave on a freshly bound buffer are a prefix of the
\* bytes the same call produces with ample capacity: no later field is
\* written after an earlier one was dropped.
C6_TruncationIsPrefix ==
  (op \in Encoders /\ Fresh /\ ~fault)
    => IsPrefix(Msg, Bytes(Ample.mem, Ample.begin, Ample.ptr))

\* C7: a call of push_syn, push_frame, push_ack, push_nak or push_cmd that
\* returns without everything it appends lying inside the buffer has
\* emitted at least one diagnostic; a call with room for everything it
\* appends emits none.
C7_ViolationsReported ==
  (op \in Pushers /\ ~fault)
    => /\ ~(ptr = ptr0 + Need /\ ptr <= end) => warned >= 1
       /\ end - ptr0 >= Need => (warned = 0 /\ ptr = ptr0 + Need)

C7_Witness ==
  /\ op = "push_cmd" /\ ~fault
  /\ ptr > end
  /\ warned = 1

\* C8: with capacity >= 10, push_ack(seq) on a freshly bound buffer leaves
\* exactly the 10 bytes SYN (little-endian) | ACK, 0, 0, seq |
\* checksum(header) | checksum([]); push_nak() leaves the same shape with
\* the type byte NAK and the seq byte 0.
C8_AckLayout ==
  (op \in {"push_ack", "push_nak"} /\ Fresh /\ Cap >= 10)
    => LET ty == IF op = "push_ack" THEN SSH_FRAME_TYPE_ACK
                 ELSE SSH_FRAME_TYPE_NAK
           seq == IF op = "push_ack" THEN args.seq ELSE 0
           hcrc == CrcOfSeq(<<ty, 0, 0, seq>>)
           pcrc == CrcOfSeq(<<>>)
       IN  Msg = <<SSH_MSG_SYN % U8, SSH_MSG_SYN \div U8, ty, 0, 0, seq,
                   hcrc % U8, hcrc \div U8, pcrc % U8, pcrc \div U8>>

C8_Witness ==
  /\ op = "push_ack" /\ Fresh /\ Cap >= 10
  /\ args.seq = 5
  /\ Used = 10
  /\ ByteAt(mem, begin + 5) = 5

\* C9: with sufficient capacity, push_cmd on a freshly bound buffer puts at
\* offsets 8..15 the bytes payload-type tag, target category, target id,
\* 0, instance id, rqid low, rqid high, command id, and the rqst.length
\* payload bytes, in order, from offset 16.
C9_CommandLayout ==
  (op = "push_cmd" /\ Fresh /\ Cap >= MsgSize)
    => /\ Bytes(mem, begin + 8, begin + 16)
            = <<SSH_PLD_TYPE_CMD, args.rqst.target_category,
                args.rqst.target_id, 0, args.rqst.instance_id,
                args.rqid % U8, args.rqid \div U8, args.rqst.command_id>>
       /\ Bytes(mem, begin + 16, begin + 16 + args.rqst.length)
            = args.rqst.payload

C9_Witness ==
  /\ op = "push_cmd" /\ Fresh /\ Cap >= MsgSize
  /\ args.rqst.length = MaxPayload
  /\ ByteAt(mem, begin + 16) = PayloadByte(1)
  /\ ByteAt(mem, begin + 13) # ByteAt(mem, begin + 14)

\* C10: the payload-length field push_cmd writes (bytes 3..4, little-
\* endian) equals sizeof(command header) + request.length for every 16-bit
\* request.length, and so the number of bytes between the header checksum
\* and the payload checksum.
C10_FrameLengthField ==
  (op = "push_cmd" /\ Fresh /\ Cap >= MsgSize)
    => /\ ReadLE16(mem, begin + 3) = SizeofCmd + args.rqst.length
       /\ ReadLE16(mem, begin + 3) = (ptr - 2) - (begin + 8)

\* A step that is a call of a push operation / of msgb_init.
PushStep == calls' = calls + 1
BindStep == op' = "init" /\ calls' = calls

\* The last encoder call repeated on clean storage of the same capacity,
\* bound for the first time.
OnFreshStorage ==
  LET s == msgb_init([a \in 1..MemLen |-> 0], begin, Cap)
  IN  CASE op = "push_ack" -> msgb_push_ack(s, args.seq)
        [] op = "push_nak" -> msgb_push_nak(s)
        [] OTHER -> msgb_push_cmd(s, args.seq, args.rqid, args.rqst, "land")

Checked == {"push_u16", "push_syn", "push_crc", "push_frame", "push_ack",
            "push_nak"}

\* C11: push_frame called with fewer than 4 bytes of remaining capacity is
\* a no-op: the cursor and used() are unchanged, no byte of memory is
\* modified or stored to (so no header checksum is appended), and a
\* diagnostic is emitted.
C11_FrameNoOp ==
  [][(PushStep /\ op' = "push_frame" /\ end - ptr < 4)
       => /\ ptr' = ptr
          /\ ptr' - begin' = ptr - begin
          /\ mem' = mem
          /\ written' = {}
          /\ warned' >= 1]_vars

C11_Witness ==
  /\ op = "push_frame" /\ Fresh
  /\ Cap = 3
  /\ Used = 0
  /\ warned = 1
  /\ written = {}

\* C12: msgb_init on the same storage and capacity, after any sequence of
\* push operations, sets the cursor to the origin, so that used() = 0, and
\* touches nothing else; an encoder call made from the origin of a buffer
\* that holds the remains of earlier messages leaves the same bytes and the
\* same used() as the same call on a freshly bound buffer.
C12_RebindResets ==
  /\ [][BindStep
          => /\ ptr' = begin'
             /\ ptr' - begin' = 0
             /\ begin' = begin /\ end' = end /\ mem' = mem]_vars
  /\ [](op \in Encoders /\ Fresh /\ ~fault
          => /\ Used = msgb_bytes_used(OnFreshStorage)
             /\ Msg = Bytes(OnFreshStorage.mem, OnFreshStorage.begin,
                            OnFreshStorage.ptr))

C12_Witness ==
  /\ calls = 2 /\ op = "push_ack" /\ Fresh /\ ~fault
  /\ Used = 10
  /\ ByteAt(mem, begin + 16) = PayloadByte(1)

\* C13: from any state with begin <= ptr <= end, each of msgb_push_u16,
\* msgb_push_syn, msgb_push_crc, msgb_push_frame, msgb_push_ack and
\* msgb_push_nak keeps ptr <= end and stores to no address outside
\* [begin, end) (so every sequence of them does).
C13_CheckedOpsStayInside ==
  (op \in Checked /\ begin <= ptr0 /\ ptr0 <= end)
    => /\ ptr0 <= ptr
       /\ ptr <= end
       /\ \A a \in written : begin <= a /\ a < end

C13_Witness ==
  /\ op = "push_ack" /\ calls = 2
  /\ ptr0 > begin
  /\ ptr = end
  /\ warned >= 1
  /\ written # {}

\* C14: msgb_push_u16(value): if ptr + 2 > end the call changes neither the
\* cursor nor any byte of memory and emits a diagnostic; otherwise it
\* stores value's low byte at ptr and its high byte at ptr + 1, changes no
\* other byte, advances the cursor by exactly 2 and emits no diagnostic.
C14_PushU16 ==
  [][(PushStep /\ op' = "push_u16")
       => IF ptr + 2 > end
          THEN /\ ptr' = ptr
               /\ mem' = mem
               /\ written' = {}
               /\ warned' >= 1
          ELSE /\ ptr' = ptr + 2
               /\ ByteAt(mem', ptr) = args'.value % U8
               /\ ByteAt(mem', ptr + 1) = args'.value \div U8
               /\ \A a \in 0..(MemLen - 1) :
                    a \notin {ptr, ptr + 1} => ByteAt(mem', a) = ByteAt(mem, a)
               /\ warned' = 0]_vars

C14_Witness ==
  /\ op = "push_u16"
  /\ ptr0 + 2 = end
  /\ ptr = end
  /\ warned = 0
  /\ ByteAt(mem, ptr0) = 52
  /\ ByteAt(mem, ptr0 + 1) = 18

\* C15: every push operation leaves begin and end unchanged, never
\* decreases the cursor and never modifies or stores to a byte before the
\* cursor it was called with; only msgb_init moves the cursor backwards.
C15_AppendOnly ==
  [][/\ PushStep
          => /\ begin' = begin /\ end' = end
             /\ ptr' >= ptr
             /\ Bytes(mem', 0, ptr) = Bytes(mem, 0, ptr)
             /\ \A a \in written' : a >= ptr
     /\ ptr' < ptr => BindStep]_vars

C15_Witness ==
  /\ calls = 2 /\ op = "push_frame"
  /\ ptr0 = begin + 2
  /\ ptr = ptr0 + 6
  /\ Bytes(mem, begin, begin + 2) = put_unaligned_le16(SSH_MSG_SYN)

\* C16: msgb_push_frame advances the cursor by exactly 0 bytes when fewer
\* than 4 bytes remain, by exactly 4 (header written, checksum dropped with
\* a diagnostic) when 4 or 5 remain, and by exactly 6 when at least 6
\* remain.
C16_FrameAdvance ==
  op = "push_frame"
    => LET room == end - ptr0
       IN  /\ room < 4 => ptr = ptr0
           /\ room \in {4, 5}
                => (ptr = ptr0 + 4 /\ warned = 1 /\ written = ptr0..(ptr0 + 3))
           /\ room >= 6 => (ptr = ptr0 + 6 /\ warned = 0)
           /\ ptr - ptr0 \in {0, 4, 6}

C16_Witness ==
  /\ op = "push_frame"
  /\ end - ptr0 = 5
  /\ ptr = ptr0 + 4
  /\ warned = 1

\* --------------------------------------------------- the hot-plug bridge
\* surface_hotplug_probe() has returned 0.
Probed == ppc \in {"probed", "remove", "sync", "removed"}

\* The types whose DSM notification is inside its critical section, from
\* mutex_lock() taken to mutex_unlock().
Inside(type) ==
  {th \in Threads : thr[th].pc \in {"read", "dsm"} /\ thr[th].type = type}

\* C17: the handler always finds its interrupt: shps_handle_irq() only
\* runs with an IRQ number that is recorded in sdev->irq[], and no
\* delivered interrupt ends in the "invalid IRQ number" branch, in every
\* interleaving of the probe with interrupt delivery.
C17_HandlerFindsInterrupt ==
  /\ \A t \in Types :
       thr[t].pc = "lookup" => \E type \in Types : sirq[type] = IrqOf(t)
  /\ \A t \in Types : thr[t].pc # "invalid"

\* C18: per type, at most one thread at a time is between the GPIO read
\* and the end of the DSM evaluation, and the DSM notifications of a type
\* are evaluated in the order of the GPIO reads their values come from;
\* lock[type] is held only by a thread inside that section, so it is
\* released on every return path; a thread waiting for lock[type] is held
\* up by a thread inside the section of the same type only, whatever the
\* locks of the other types, and it does not wait forever.
C18_PerTypeSerialisation ==
  /\ [](\A type \in Types :
          /\ Cardinality(Inside(type)) <= 1
          /\ lock[type] # NoThread => lock[type] \in Inside(type)
          /\ Inside(type) = {} => LockFree(type))
  /\ [][\A fn \in DsmFns : dsm'[fn].stamp >= dsm[fn].stamp]_vars
  /\ \A th \in Threads : (thr[th].pc = "lock") ~> (thr[th].pc # "lock")

\* The probe waits for the lock of type 1 while the interrupt thread of
\* that type, which read the line after its change, evaluates the DSM
\* function.
C18_Witness ==
  /\ ppc = "notifying"
  /\ thr[ProbeThread].pc = "lock" /\ thr[ProbeThread].type = 1
  /\ thr[1].pc = "dsm" /\ thr[1].type = 1 /\ thr[1].value = 1
  /\ lock[1] = 1

\* No handler is pending or running.
Quiescent == \A t \in Types : thr[t].pc = "idle" /\ ~latched[t]

\* The threads inside shps_dsm_notify_irq().
Notifying == {th \in Threads : thr[th].pc \in {"lock", "read", "dsm"}}

\* C19: whenever the probe has returned 0 and no handler is pending or
\* running, the value of the most recent DSM notification of every present
\* type whose GPIO read and DSM evaluation succeeded is the current level
\* of its line; a type whose DSM function is absent is never notified.
C19_ProbeUpToDate ==
  /\ (Probed /\ Quiescent)
       => \A t \in Types :
            (dsm_present[DsmFn(t)] /\ dsm[DsmFn(t)].value # Failed)
              => /\ IsPresent(t)
                 /\ dsm[DsmFn(t)].value = level[t]
  /\ \A t \in Types :
       ~dsm_present[DsmFn(t)]
         => /\ dsm[DsmFn(t)].value = NoValue
            /\ reads[t] = 0
            /\ \A th \in Notifying : thr[th].type # t

\* The probe has notified type 1, its line has changed since and its
\* handler has told the platform; type 2 has no DSM function.
C19_Witness ==
  /\ ppc = "probed" /\ Quiescent
  /\ dsm_present[DsmFn(1)] /\ level[1] = 1
  /\ dsm[DsmFn(1)] = [value |-> 1, stamp |-> 2]
  /\ ~dsm_present[DsmFn(2)] /\ dsm[DsmFn(2)].value = NoValue

\* C20: once surface_hotplug_remove() has returned no shps_handle_irq()
\* is in progress, none starts and no DSM notification is evaluated for
\* any type, whatever interrupts are pending or arrive; and
\* SHPS_IRQ_NOT_PRESENT is never passed to disable_irq().
C20_RemoveQuiesces ==
  /\ [](ppc = "removed" => \A th \in Threads : thr[th].pc = "idle")
  /\ [][ppc = "removed"
          => thr' = thr /\ dsm' = dsm /\ reads' = reads /\ lock' = lock]_vars
  /\ [](SHPS_IRQ_NOT_PRESENT \notin disableArgs)

\* The device is removed, types 0 and 1 were disabled, type 2 was never
\* set up, and an edge that arrived on line 0 stays pending.
C20_Witness ==
  /\ ppc = "removed"
  /\ disableArgs = {IrqOf(0), IrqOf(1)}
  /\ ~dsm_present[DsmFn(2)]
  /\ latched[0] /\ level[0] = 1 /\ dsm[DsmFn(0)].value = 0

====
